---- MODULE Spec2Model ----
(***************************************************************************)
(* Model of pdf_text_extraction.py: the command-line driver main, the      *)
(* extraction script it runs in a subprocess (extract_text_from_pdf) and   *)
(* the combiner combine_text_files, over a small file system.              *)
(*                                                                         *)
(* File names and file contents are sequences of one-character strings,    *)
(* so that formatting (page_{n:03d}.txt), globbing (page_*.txt), parsing   *)
(* (int(stem.split('_')[1])) and trimming (str.strip) are computed.        *)
(* A page image is represented by the text OCR yields for it.              *)
(***************************************************************************)
EXTENDS Integers, Sequences, FiniteSets, TLC

\* ---------------------------------------------------------------- bounds
\* Largest number of pages a PDF rasterizes to, and of pages of an earlier run.
MaxPages == 2
\* Largest number of page files whose read fails during one combine.
MaxReadFail == 1

\* ------------------------------------------------------- program constants
\* f"page_{page_num:03d}.txt": minimum field width of the page number.
PadWidth == 3
\* "-" * 80: length of the dash rule of the separator.
RuleLen == 80

\* ------------------------------------------------------------- file names
PagePrefix == <<"p", "a", "g", "e", "_">>
TxtExt == <<".", "t", "x", "t">>
\* combine_text_files' default output_file, "combined_text.txt".
CombinedName ==
    <<"c", "o", "m", "b", "i", "n", "e", "d", "_", "t", "e", "x", "t">> \o TxtExt
\* Path("temp_extract_script.py"), relative to the working directory.
TempScriptName ==
    <<"t", "e", "m", "p", "_", "e", "x", "t", "r", "a", "c", "t", "_",
      "s", "c", "r", "i", "p", "t", ".", "p", "y">>

DigitChars == <<"0", "1", "2", "3", "4", "5", "6", "7", "8", "9">>
IsDigit(c) == \E d \in 1..10 : DigitChars[d] = c
DigitVal(c) == (CHOOSE d \in 1..10 : DigitChars[d] = c) - 1

\* str.strip() and int() treat these as whitespace.
Whitespace == {" ", "\n", "\t", "\f", "\r"}

\* Decimal digits of n >= 0, most significant first.
RECURSIVE ToDigits(_)
ToDigits(n) ==
    IF n < 10 THEN <<DigitChars[n + 1]>>
    ELSE ToDigits(n \div 10) \o <<DigitChars[(n % 10) + 1]>>

RECURSIVE ZeroPad(_, _)
ZeroPad(s, w) == IF Len(s) >= w THEN s ELSE ZeroPad(<<"0">> \o s, w)

\* Mutant: the page number written without zero padding.
PageFileNameUnpadded(page_num) == PagePrefix \o ToDigits(page_num) \o TxtExt

\* f"page_{page_num:03d}.txt"
PageFileName(page_num) ==
    PagePrefix \o ZeroPad(ToDigits(page_num), PadWidth) \o TxtExt

HasPrefix(s, p) == Len(s) >= Len(p) /\ SubSeq(s, 1, Len(p)) = p
HasSuffix(s, x) == Len(s) >= Len(x) /\ SubSeq(s, Len(s) - Len(x) + 1, Len(s)) = x

\* The glob pattern "page_*.txt": '*' matches any, possibly empty, run.
GlobMatch(name) ==
    /\ Len(name) >= Len(PagePrefix) + Len(TxtExt)
    /\ HasPrefix(name, PagePrefix)
    /\ HasSuffix(name, TxtExt)

\* Path.stem: the name without its last suffix.
Stem(name) ==
    LET dots == {i \in 2..Len(name) : name[i] = "."}
    IN  IF dots = {} THEN name
        ELSE SubSeq(name, 1, (CHOOSE i \in dots : \A j \in dots : j <= i) - 1)

\* str.split(sep): the fields between the occurrences of sep.
RECURSIVE Split(_, _)
Split(s, sep) ==
    LET hits == {i \in 1..Len(s) : s[i] = sep}
    IN  IF hits = {} THEN <<s>>
        ELSE LET i == CHOOSE h \in hits : \A g \in hits : h <= g
             IN  <<SubSeq(s, 1, i - 1)>> \o Split(SubSeq(s, i + 1, Len(s)), sep)

\* x.stem.split('_')[1]
KeyField(name) == Split(Stem(name), "_")[2]

RECURSIVE LStrip(_)
LStrip(s) ==
    IF s # <<>> /\ Head(s) \in Whitespace THEN LStrip(Tail(s)) ELSE s

RECURSIVE RStrip(_)
RStrip(s) ==
    IF s # <<>> /\ s[Len(s)] \in Whitespace
    THEN RStrip(SubSeq(s, 1, Len(s) - 1)) ELSE s

\* str.strip()
Strip(s) == RStrip(LStrip(s))

\* int(text) accepts: optional surrounding whitespace, an optional sign,
\* then one or more decimal digits. Anything else raises ValueError.
Unsigned(s) == IF s # <<>> /\ Head(s) \in {"+", "-"} THEN Tail(s) ELSE s
IsIntLiteral(s) ==
    LET u == Unsigned(Strip(s))
    IN  u # <<>> /\ \A i \in 1..Len(u) : IsDigit(u[i])

RECURSIVE DigitsValue(_)
DigitsValue(u) ==
    IF u = <<>> THEN 0
    ELSE 10 * DigitsValue(SubSeq(u, 1, Len(u) - 1)) + DigitVal(u[Len(u)])

PyInt(s) ==
    LET t == Strip(s)
        v == DigitsValue(Unsigned(t))
    IN  IF t # <<>> /\ Head(t) = "-" THEN 0 - v ELSE v

\* Mutant: no numeric key, so the stable sort keeps the listing order.
SortKeyNone(name) == 0

\* key=lambda x: int(x.stem.split('_')[1])
SortKey(name) == PyInt(KeyField(name))

\* sorted(...) is stable: x goes after every element whose key is <= its own.
RECURSIVE InsertByKey(_, _)
InsertByKey(sorted, x) ==
    IF sorted = <<>> THEN <<x>>
    ELSE IF SortKey(sorted[Len(sorted)]) <= SortKey(x) THEN Append(sorted, x)
    ELSE Append(InsertByKey(SubSeq(sorted, 1, Len(sorted) - 1), x),
                sorted[Len(sorted)])

RECURSIVE SortedByKey(_)
SortedByKey(listing) ==
    IF listing = <<>> THEN <<>>
    ELSE InsertByKey(SortedByKey(SubSeq(listing, 1, Len(listing) - 1)),
                     listing[Len(listing)])

\* "\n\n" + "-" * 80 + "\n\n"
Separator == <<"\n", "\n">> \o [i \in 1..RuleLen |-> "-"] \o <<"\n", "\n">>

\* ------------------------------------------------------------ environment
\* OCR results of the pages of the PDFs tried (leading, inner and trailing
\* whitespace; a page with no text at all).
Texts == { <<" ", "A", "\n", "B", "\f">>, <<"\n">> }

\* Text left in page_00k.txt by an earlier run.
OldText(k) == <<"o", "l", "d">> \o ToDigits(k) \o <<"\n">>

\* Other files matching page_*.txt that the directory may hold.
Page2Name == PagePrefix \o <<"2">> \o TxtExt
Page10Name == PagePrefix \o <<"1", "0">> \o TxtExt
PageXName == PagePrefix \o <<"x">> \o TxtExt
\* Files numbered without padding, whose text order is not their numeric order.
UnpaddedNames == {Page2Name, Page10Name}
ExtraText(name) ==
    IF name = Page2Name THEN <<"\t", "t", "w", "o", " ", "2", "\n">>
    ELSE IF name = Page10Name THEN <<"t", "e", "n">>
    ELSE <<"x">>

\* The generated extraction script and a user's file of the same name.
ScriptText == <<"s", "c", "r", "i", "p", "t">>
UserText == <<"u", "s", "e", "r">>

RECURSIVE SeqsUpTo(_, _)
SeqsUpTo(S, n) ==
    IF n = 0 THEN {<<>>}
    ELSE LET shorter == SeqsUpTo(S, n - 1)
         IN  shorter \cup {Append(s, x) : s \in {t \in shorter : Len(t) = n - 1}, x \in S}

\* The orders in which a directory may list the files of S.
RECURSIVE Perms(_)
Perms(S) ==
    IF S = {} THEN {<<>>}
    ELSE UNION {{Append(p, x) : p \in Perms(S \ {x})} : x \in S}

\* ------------------------------------------------------------------ state
VARIABLES
    args,             \* parsed command line: which options were given
    outIsCwd,         \* --output_dir names the working directory
    outKind,          \* what --output_dir names: "missing", "file" or "dir"
    fs,               \* regular files: <<directory, name>> -> content
    venv,             \* ~/.pdf_extractor_venv: "missing", "created", "provisioned"
    pc,               \* position of the run
    msg,              \* the last message printed
    outcome,          \* how main ended: "running", "returned", "raised", "exit1"
    images,           \* convert_from_path's result, each image as its OCR text
    page_num,         \* the page the extraction loop is at
    failure,          \* where the subprocess failed: "none", "raster", "mkdir", "page"
    text_files,       \* combine_text_files: the sorted page files
    idx,              \* combine_text_files: position in text_files
    combined_content, \* combine_text_files: the text built so far
    skipped,          \* page files whose read failed
    ret,              \* combine_text_files' result
    ran,              \* the phases the run has started
    fs0, outKind0     \* the files and the output directory when main started

vars == <<args, outIsCwd, outKind, fs, venv, pc, msg, outcome, images, page_num,
          failure, text_files, idx, combined_content, skipped, ret, ran,
          fs0, outKind0>>

OutDir == IF outIsCwd THEN "cwd" ELSE "out"
TempPath == <<"cwd", TempScriptName>>

Put(f, p, c) == [q \in DOMAIN f \cup {p} |-> IF q = p THEN c ELSE f[q]]
Remove(f, p) == [q \in DOMAIN f \ {p} |-> f[q]]
NamesIn(f, dir) == {p[2] : p \in {q \in DOMAIN f : q[1] = dir}}

\* The files an output directory may hold before the run.
InitialFiles(dir, earlier, extras, hasCombined, hasTemp) ==
    LET pages == {<<dir, PageFileName(k)>> : k \in 1..earlier}
        extra == {<<dir, n>> : n \in extras}
        comb == IF hasCombined THEN {<<dir, CombinedName>>} ELSE {}
        temp == IF hasTemp THEN {TempPath} ELSE {}
    IN  [p \in pages \cup extra \cup comb \cup temp |->
            IF p \in temp THEN UserText
            ELSE IF p \in comb THEN <<"c">>
            ELSE IF p \in extra THEN ExtraText(p[2])
            ELSE OldText(CHOOSE k \in 1..earlier : p[2] = PageFileName(k))]

Init ==
    /\ args \in [pdf_path : BOOLEAN, output_dir : BOOLEAN,
                 combine : BOOLEAN, skip_extraction : BOOLEAN]
    /\ outIsCwd \in BOOLEAN
    /\ outKind \in {"missing", "file", "dir"}
    /\ (outIsCwd => outKind = "dir")
    /\ (~args.output_dir => ~outIsCwd /\ outKind = "missing")
    /\ \E earlier \in 0..MaxPages, unpadded \in {{}, UnpaddedNames},
          other \in SUBSET {PageXName}, hasCombined \in BOOLEAN, hasTemp \in BOOLEAN :
          /\ (outKind # "dir" =>
                earlier = 0 /\ unpadded = {} /\ other = {} /\ ~hasCombined)
          /\ fs = InitialFiles(OutDir, earlier, unpadded \cup other,
                               hasCombined, hasTemp)
    /\ venv \in {"missing", "provisioned"}
    /\ pc = "validate"
    /\ msg = "none"
    /\ outcome = "running"
    /\ images = <<>>
    /\ page_num = 0
    /\ failure = "none"
    /\ text_files = <<>>
    /\ idx = 0
    /\ combined_content = <<>>
    /\ skipped = {}
    /\ ret = "none"
    /\ ran = {}
    /\ fs0 = fs
    /\ outKind0 = outKind

\* ------------------------------------------------------------------- main
CombineOnly == args.skip_extraction /\ args.combine

\* main, lines 113-124: the mode and the required arguments.
ValidateArgs ==
    /\ pc = "validate"
    /\ IF CombineOnly
       THEN IF ~args.output_dir
            THEN /\ msg' = "ErrOutputDirRequired"
                 /\ pc' = "done"
                 /\ outcome' = "returned"
            ELSE /\ msg' = "CombiningExisting"
                 /\ pc' = "combine_start"
                 /\ UNCHANGED outcome
       ELSE IF ~args.pdf_path \/ ~args.output_dir
            THEN /\ msg' = "ErrBothRequired"
                 /\ pc' = "done"
                 /\ outcome' = "returned"
            ELSE /\ pc' = "check_pdf"
                 /\ UNCHANGED <<msg, outcome>>
    /\ UNCHANGED <<args, outIsCwd, outKind, fs, venv, images, page_num, failure,
                   text_files, idx, combined_content, skipped, ret, ran,
                   fs0, outKind0>>

\* main, lines 127-130: the PDF must exist.
CheckPdf ==
    /\ pc = "check_pdf"
    /\ \E exists \in BOOLEAN :
          IF exists
          THEN /\ pc' = "check_tesseract"
               /\ UNCHANGED <<msg, outcome>>
          ELSE /\ msg' = "ErrPdfMissing"
               /\ pc' = "done"
               /\ outcome' = "returned"
    /\ UNCHANGED <<args, outIsCwd, outKind, fs, venv, images, page_num, failure,
                   text_files, idx, combined_content, skipped, ret, ran,
                   fs0, outKind0>>

\* Mutant: the environment is provisioned before the OCR runtime is probed.
CheckTesseractAfterProvisioning ==
    /\ pc = "check_tesseract"
    /\ ran' = ran \cup {"probe", "venv"}
    /\ venv' = "provisioned"
    /\ \E installed \in BOOLEAN :
          IF installed
          THEN /\ msg' = "TesseractVersion"
               /\ pc' = "write_script"
               /\ UNCHANGED outcome
          ELSE /\ msg' = "ErrNoTesseract"
               /\ pc' = "done"
               /\ outcome' = "returned"
    /\ UNCHANGED <<args, outIsCwd, outKind, fs, images, page_num, failure,
                   text_files, idx, combined_content, skipped, ret,
                   fs0, outKind0>>

\* check_tesseract, lines 48-62, and main, lines 133-134. The probe finds
\* the runtime, or does not (FileNotFoundError, caught), or raises what
\* check_tesseract does not catch (IndexError on a one-word version output,
\* PermissionError).
CheckTesseract ==
    /\ pc = "check_tesseract"
    /\ ran' = ran \cup {"probe"}
    /\ \E probe \in {"installed", "absent", "raises"} :
          IF probe = "installed"
          THEN /\ msg' = "TesseractVersion"
               /\ pc' = "setup_venv"
               /\ UNCHANGED outcome
          ELSE IF probe = "absent"
          THEN /\ msg' = "ErrNoTesseract"
               /\ pc' = "done"
               /\ outcome' = "returned"
          ELSE /\ pc' = "done"
               /\ outcome' = "raised"
               /\ UNCHANGED msg
    /\ UNCHANGED <<args, outIsCwd, outKind, fs, venv, images, page_num, failure,
                   text_files, idx, combined_content, skipped, ret,
                   fs0, outKind0>>

\* setup_virtual_environment, lines 16-46, and main, line 137.
SetupVenv ==
    /\ pc = "setup_venv"
    /\ ran' = ran \cup {"venv"}
    /\ \E installed \in BOOLEAN :
          IF installed
          THEN /\ venv' = "provisioned"
               /\ msg' = "PackagesInstalled"
               /\ pc' = "write_script"
               /\ UNCHANGED outcome
          ELSE /\ venv' = IF venv = "missing" THEN "created" ELSE venv
               /\ msg' = "ErrInstallingPackages"
               /\ pc' = "done"
               /\ outcome' = "exit1"
    /\ UNCHANGED <<args, outIsCwd, outKind, fs, images, page_num, failure,
                   text_files, idx, combined_content, skipped, ret,
                   fs0, outKind0>>

\* main, lines 197-199: the extraction script, in the working directory.
WriteTempScript ==
    /\ pc = "write_script"
    /\ ran' = ran \cup {"script"}
    /\ fs' = Put(fs, TempPath, ScriptText)
    /\ msg' = "StartingExtraction"
    /\ pc' = "rasterize"
    /\ UNCHANGED <<args, outIsCwd, outKind, venv, outcome, images, page_num,
                   failure, text_files, idx, combined_content, skipped, ret,
                   fs0, outKind0>>

\* ------------------------------------- the extraction script (subprocess)
\* extract_text_from_pdf, line 150: convert_from_path, which may raise.
Rasterize ==
    /\ pc = "rasterize"
    /\ ran' = ran \cup {"rasterize"}
    /\ \/ \E imgs \in SeqsUpTo(Texts, MaxPages) :
             /\ images' = imgs
             /\ pc' = "mkdir"
             /\ UNCHANGED failure
       \/ /\ failure' = "raster"
          /\ pc' = "sub_failed"
          /\ UNCHANGED images
    /\ UNCHANGED <<args, outIsCwd, outKind, fs, venv, msg, outcome, page_num,
                   text_files, idx, combined_content, skipped, ret,
                   fs0, outKind0>>

\* Mutant: the output directory is emptied of page files before the run.
MkDirClearing ==
    /\ pc = "mkdir"
    /\ outKind' = "dir"
    /\ fs' = [p \in {q \in DOMAIN fs : ~(q[1] = OutDir /\ GlobMatch(q[2]))} |-> fs[p]]
    /\ page_num' = 1
    /\ pc' = "page"
    /\ UNCHANGED <<args, outIsCwd, venv, msg, outcome, images, failure,
                   text_files, idx, combined_content, skipped, ret, ran,
                   fs0, outKind0>>

\* extract_text_from_pdf, lines 153-154: mkdir(exist_ok=True), which raises
\* FileExistsError when the path is a regular file.
MkDir ==
    /\ pc = "mkdir"
    /\ IF outKind = "file"
       THEN /\ failure' = "mkdir"
            /\ pc' = "sub_failed"
            /\ UNCHANGED <<outKind, page_num>>
       ELSE /\ outKind' = "dir"
            /\ page_num' = 1
            /\ pc' = "page"
            /\ UNCHANGED failure
    /\ UNCHANGED <<args, outIsCwd, fs, venv, msg, outcome, images,
                   text_files, idx, combined_content, skipped, ret, ran,
                   fs0, outKind0>>

PagePath(k) == <<OutDir, PageFileName(k)>>

\* Mutant: the page file is written to the working directory.
ProcessPageInCwd ==
    /\ pc = "page"
    /\ page_num <= Len(images)
    /\ ran' = ran \cup {"page"}
    /\ fs' = Put(fs, <<"cwd", PageFileName(page_num)>>, images[page_num])
    /\ page_num' = page_num + 1
    /\ UNCHANGED <<args, outIsCwd, outKind, venv, pc, msg, outcome, images,
                   failure, text_files, idx, combined_content, skipped, ret,
                   fs0, outKind0>>

\* extract_text_from_pdf, lines 157-181: one iteration of the page loop.
\* Preprocessing, OCR or open() may raise before the file is touched; a
\* failing write leaves the file opened with "w" truncated or partly written.
ProcessPage ==
    /\ pc = "page"
    /\ page_num <= Len(images)
    /\ ran' = ran \cup {"page"}
    /\ LET text == images[page_num]
       IN  \/ /\ fs' = Put(fs, PagePath(page_num), text)
              /\ page_num' = page_num + 1
              /\ UNCHANGED <<pc, failure>>
           \/ /\ failure' = "page"
              /\ pc' = "sub_failed"
              /\ UNCHANGED <<fs, page_num>>
           \/ \E n \in {0, IF Len(text) = 0 THEN 0 ELSE Len(text) - 1} :
                 /\ fs' = Put(fs, PagePath(page_num), SubSeq(text, 1, n))
                 /\ failure' = "page"
                 /\ pc' = "sub_failed"
                 /\ UNCHANGED page_num
    /\ UNCHANGED <<args, outIsCwd, outKind, venv, msg, outcome, images,
                   text_files, idx, combined_content, skipped, ret,
                   fs0, outKind0>>

\* extract_text_from_pdf, line 183, and main, lines 205-210: the subprocess
\* exits 0, check_call returns, and the combiner runs if --combine is set.
SubprocessReturn ==
    /\ pc = "page"
    /\ page_num > Len(images)
    /\ msg' = "Complete"
    /\ pc' = IF args.combine THEN "combine_start" ELSE "cleanup"
    /\ UNCHANGED <<args, outIsCwd, outKind, fs, venv, outcome, images, page_num,
                   failure, text_files, idx, combined_content, skipped, ret, ran,
                   fs0, outKind0>>

\* Mutant: the combiner runs although the subprocess failed.
SubprocessErrorCombining ==
    /\ pc = "sub_failed"
    /\ msg' = "ErrDuringExtraction"
    /\ pc' = IF args.combine THEN "combine_start" ELSE "cleanup"
    /\ UNCHANGED <<args, outIsCwd, outKind, fs, venv, outcome, images, page_num,
                   failure, text_files, idx, combined_content, skipped, ret, ran,
                   fs0, outKind0>>

\* main, lines 205 and 211-212: the subprocess exits non-zero, check_call
\* raises CalledProcessError, which main reports; the combiner is skipped.
SubprocessError ==
    /\ pc = "sub_failed"
    /\ msg' = "ErrDuringExtraction"
    /\ pc' = "cleanup"
    /\ UNCHANGED <<args, outIsCwd, outKind, fs, venv, outcome, images, page_num,
                   failure, text_files, idx, combined_content, skipped, ret, ran,
                   fs0, outKind0>>

\* main, lines 213-216: the finally clause removes the temporary script.
Cleanup ==
    /\ pc = "cleanup"
    /\ fs' = IF TempPath \in DOMAIN fs THEN Remove(fs, TempPath) ELSE fs
    /\ pc' = "done"
    /\ outcome' = "returned"
    /\ UNCHANGED <<args, outIsCwd, outKind, venv, msg, images, page_num,
                   failure, text_files, idx, combined_content, skipped, ret, ran,
                   fs0, outKind0>>

\* ----------------------------------------------------- combine_text_files
\* glob("page_*.txt") over the output directory.
Matches == {n \in NamesIn(fs, OutDir) : GlobMatch(n)}

\* Where control goes when combine_text_files returns to main: line 119
\* (combine-only mode returns) or line 210 (the try block ends).
ReturnToMain ==
    IF CombineOnly
    THEN pc' = "done" /\ outcome' = "returned"
    ELSE pc' = "cleanup" /\ UNCHANGED outcome

\* Mutant: an empty combined file is written when nothing matches.
CombineStartWritingEmpty ==
    /\ pc = "combine_start"
    /\ ran' = ran \cup {"combine"}
    /\ IF outKind # "dir"
       THEN /\ msg' = "ErrNoOutputDir"
            /\ ret' = "false"
            /\ ReturnToMain
            /\ UNCHANGED <<fs, text_files, idx, combined_content>>
       ELSE IF \E n \in Matches : ~IsIntLiteral(KeyField(n))
       THEN /\ ret' = "raised"
            /\ IF CombineOnly
               THEN pc' = "done" /\ outcome' = "raised" /\ UNCHANGED msg
               ELSE pc' = "cleanup" /\ msg' = "ErrDuringExtraction"
                    /\ UNCHANGED outcome
            /\ UNCHANGED <<fs, text_files, idx, combined_content>>
       ELSE IF Matches = {}
       THEN /\ msg' = "ErrNoTextFiles"
            /\ ret' = "false"
            /\ fs' = Put(fs, <<OutDir, CombinedName>>, <<>>)
            /\ ReturnToMain
            /\ UNCHANGED <<text_files, idx, combined_content>>
       ELSE /\ \E listing \in Perms(Matches) :
                  text_files' = SortedByKey(listing)
            /\ idx' = 1
            /\ combined_content' = <<>>
            /\ pc' = "combine_read"
            /\ UNCHANGED <<fs, msg, outcome, ret>>
    /\ UNCHANGED <<args, outIsCwd, outKind, venv, images, page_num, failure,
                   skipped, fs0, outKind0>>

\* combine_text_files, lines 66-80: the directory check, the glob in the
\* order the directory lists the files, and the sort, whose key raises
\* ValueError on a name whose second field is not an integer literal. The
\* exception leaves combine_text_files; main catches it only after an
\* extraction (lines 211-212).
CombineStart ==
    /\ pc = "combine_start"
    /\ ran' = ran \cup {"combine"}
    /\ IF outKind # "dir"
       THEN /\ msg' = "ErrNoOutputDir"
            /\ ret' = "false"
            /\ ReturnToMain
            /\ UNCHANGED <<text_files, idx, combined_content>>
       ELSE IF \E n \in Matches : ~IsIntLiteral(KeyField(n))
       THEN /\ ret' = "raised"
            /\ IF CombineOnly
               THEN pc' = "done" /\ outcome' = "raised" /\ UNCHANGED msg
               ELSE pc' = "cleanup" /\ msg' = "ErrDuringExtraction"
                    /\ UNCHANGED outcome
            /\ UNCHANGED <<text_files, idx, combined_content>>
       ELSE IF Matches = {}
       THEN /\ msg' = "ErrNoTextFiles"
            /\ ret' = "false"
            /\ ReturnToMain
            /\ UNCHANGED <<text_files, idx, combined_content>>
       ELSE /\ \E listing \in Perms(Matches) :
                  text_files' = SortedByKey(listing)
            /\ idx' = 1
            /\ combined_content' = <<>>
            /\ pc' = "combine_read"
            /\ UNCHANGED <<msg, outcome, ret>>
    /\ UNCHANGED <<args, outIsCwd, outKind, fs, venv, images, page_num, failure,
                   skipped, fs0, outKind0>>

\* Mutant: the separator is appended for a page that could not be read.
CombineReadSeparatorAlways ==
    /\ pc = "combine_read"
    /\ idx <= Len(text_files)
    /\ LET file_path == text_files[idx]
       IN  \/ /\ combined_content' =
                    combined_content \o Strip(fs[<<OutDir, file_path>>]) \o Separator
              /\ UNCHANGED <<skipped, msg>>
           \/ /\ Cardinality(skipped) < MaxReadFail
              /\ skipped' = skipped \cup {file_path}
              /\ msg' = "ErrReading"
              /\ combined_content' = combined_content \o Separator
    /\ idx' = idx + 1
    /\ UNCHANGED <<args, outIsCwd, outKind, fs, venv, pc, outcome, images,
                   page_num, failure, text_files, ret, ran, fs0, outKind0>>

\* combine_text_files, lines 81-89: one iteration of the read loop; a read
\* that raises is reported and the loop goes on.
CombineRead ==
    /\ pc = "combine_read"
    /\ idx <= Len(text_files)
    /\ LET file_path == text_files[idx]
       IN  \/ /\ combined_content' =
                    combined_content \o Strip(fs[<<OutDir, file_path>>]) \o Separator
              /\ UNCHANGED <<skipped, msg>>
           \/ /\ Cardinality(skipped) < MaxReadFail
              /\ skipped' = skipped \cup {file_path}
              /\ msg' = "ErrReading"
              /\ UNCHANGED combined_content
    /\ idx' = idx + 1
    /\ UNCHANGED <<args, outIsCwd, outKind, fs, venv, pc, outcome, images,
                   page_num, failure, text_files, ret, ran, fs0, outKind0>>

\* combine_text_files, lines 91-100: the combined file is written, or the
\* failure to write it is reported (open() raised, or the write did and
\* left the file truncated).
CombineWrite ==
    /\ pc = "combine_read"
    /\ idx > Len(text_files)
    /\ LET combined_path == <<OutDir, CombinedName>>
       IN  \/ /\ fs' = Put(fs, combined_path, combined_content)
              /\ msg' = "CombinedSaved"
              /\ ret' = "true"
           \/ /\ fs' \in {fs, Put(fs, combined_path, <<>>)}
              /\ msg' = "ErrWritingCombined"
              /\ ret' = "false"
    /\ ReturnToMain
    /\ UNCHANGED <<args, outIsCwd, outKind, venv, images, page_num, failure,
                   text_files, idx, combined_content, skipped, ran,
                   fs0, outKind0>>

Next ==
    \/ ValidateArgs
    \/ CheckPdf
    \/ CheckTesseract
    \/ SetupVenv
    \/ WriteTempScript
    \/ Rasterize
    \/ MkDir
    \/ ProcessPage
    \/ SubprocessReturn
    \/ SubprocessError
    \/ CombineStart
    \/ CombineRead
    \/ CombineWrite
    \/ Cleanup

Spec == Init /\ [][Next]_vars

\* ------------------------------------------------------------ properties
\* The page files the output directory held when main started.
Matches0 == {n \in NamesIn(fs0, OutDir) : GlobMatch(n)}

\* The extraction loop ran over every image and nothing raised.
ExtractionCompleted == failure = "none" /\ page_num > Len(images)

\* The part of a page-file name between "page_" and ".txt".
NumberPart(name) == SubSeq(name, Len(PagePrefix) + 1, Len(name) - Len(TxtExt))
AllDigits(d) == d # <<>> /\ \A i \in 1..Len(d) : IsDigit(d[i])

\* name is "page_" + the decimal digits of k, three of them below 1000,
\* + ".txt".
IsPageNameOf(name, k) ==
    /\ GlobMatch(name)
    /\ AllDigits(NumberPart(name))
    /\ DigitsValue(NumberPart(name)) = k
    /\ (k < 1000 => Len(NumberPart(name)) = 3)

\* C1: an extraction that completes without error into a directory that
\* held no page files leaves exactly N page files, page k's file named
\* page_ + k in three zero-padded digits + .txt and holding the OCR text of
\* the k-th image; none when N = 0.
C1_ExactlyNPageFiles ==
    (ExtractionCompleted /\ Matches0 = {}) =>
        /\ Cardinality(Matches) = Len(images)
        /\ \A k \in 1..Len(images) :
              \E n \in Matches :
                  /\ IsPageNameOf(n, k)
                  /\ fs[<<OutDir, n>>] = images[k]

C1_Witness ==
    /\ ExtractionCompleted
    /\ Matches0 = {}
    /\ Len(images) = 2
    /\ outKind0 = "missing"
    /\ pc = "done"

\* c from its first to its last character that is not whitespace.
Trimmed(c) ==
    LET solid == {i \in 1..Len(c) : c[i] \notin Whitespace}
    IN  IF solid = {} THEN <<>>
        ELSE SubSeq(c, CHOOSE a \in solid : \A x \in solid : a <= x,
                       CHOOSE b \in solid : \A x \in solid : x <= b)

\* The trimmed content of each file of order, each followed by the separator.
RECURSIVE ConcatBlocks(_)
ConcatBlocks(order) ==
    IF order = <<>> THEN <<>>
    ELSE ConcatBlocks(SubSeq(order, 1, Len(order) - 1))
            \o Trimmed(fs[<<OutDir, order[Len(order)]>>]) \o Separator

\* The page number embedded in a page-file name.
PageNumberOf(name) == DigitsValue(NumberPart(name))
Ascending(order) ==
    \A i \in 1..(Len(order) - 1) : PageNumberOf(order[i]) <= PageNumberOf(order[i + 1])

CombinedPath == <<OutDir, CombinedName>>

\* C2: when every page file was read, the combined document is the
\* concatenation, in ascending order of the page numbers in the file names,
\* of each file's trimmed content followed by the separator (also after the
\* last page), whatever order the directory listed the files in.
C2_CombinedInNumericOrder ==
    (ret = "true" /\ skipped = {}) =>
        /\ CombinedPath \in DOMAIN fs
        /\ \E order \in Perms(Matches) :
              /\ Ascending(order)
              /\ fs[CombinedPath] = ConcatBlocks(order)

C2_Witness ==
    /\ ret = "true"
    /\ skipped = {}
    /\ {Page2Name, Page10Name, PageFileName(1)} \subseteq Matches
    /\ fs[CombinedPath] # <<>>

\* The files of text_files that were read.
ReadOf(files) == SelectSeq(files, LAMBDA f : f \notin skipped)

\* C3: a page file whose read fails contributes neither content nor
\* separator; the pages before and after it are combined in ascending page
\* order, each with its separator; the combine goes on to write the
\* combined file and fails only if that write fails.
C3_ReadFailureSkipsPage ==
    skipped # {} =>
        /\ Ascending(text_files)
        /\ pc = "combine_read" =>
              combined_content = ConcatBlocks(ReadOf(SubSeq(text_files, 1, idx - 1)))
        /\ pc # "combine_read" =>
              /\ ret \in {"true", "false"}
              /\ ret = "false" => msg = "ErrWritingCombined"
              /\ ret = "true" =>
                    /\ CombinedPath \in DOMAIN fs
                    /\ fs[CombinedPath] = ConcatBlocks(ReadOf(text_files))

C3_Witness ==
    /\ ret = "true"
    /\ Len(text_files) = 3
    /\ skipped = {text_files[2]}
    /\ fs[CombinedPath] =
          Trimmed(fs[<<OutDir, text_files[1]>>]) \o Separator
          \o Trimmed(fs[<<OutDir, text_files[3]>>]) \o Separator

\* C4: combine_text_files on a path that is missing or not a directory, or
\* on a directory with no file matching page_*.txt, returns False and leaves
\* every file and directory as it was.
C4_NothingToCombine ==
    [][(pc = "combine_start" /\ (outKind # "dir" \/ Matches = {})) =>
          /\ ret' = "false"
          /\ msg' \in {"ErrNoOutputDir", "ErrNoTextFiles"}
          /\ fs' = fs
          /\ outKind' = outKind
          /\ venv' = venv]_vars

C4_Witness ==
    /\ ret = "false"
    /\ msg = "ErrNoTextFiles"
    /\ CombinedPath \notin DOMAIN fs
    /\ pc = "done"

PreconditionErrors ==
    {"ErrOutputDirRequired", "ErrBothRequired", "ErrPdfMissing", "ErrNoTesseract"}

\* C5: a run that ends on a precondition failure (no output directory in
\* combine-only mode, a missing PDF path or output directory in extract
\* mode, a PDF that does not exist, no OCR runtime) has returned without
\* provisioning, without the temporary script, without any processing, and
\* with every file and directory as it was.
C5_PreconditionFailureWritesNothing ==
    /\ (pc # "validate" /\ CombineOnly /\ ~args.output_dir) =>
          msg = "ErrOutputDirRequired"
    /\ (pc # "validate" /\ ~CombineOnly /\ (~args.pdf_path \/ ~args.output_dir)) =>
          msg = "ErrBothRequired"
    /\ msg \in PreconditionErrors =>
          /\ pc = "done"
          /\ outcome = "returned"
          /\ ran \subseteq {"probe"}
          /\ venv \in {"missing", "provisioned"}
          /\ fs = fs0
          /\ outKind = outKind0

C5_Witness ==
    /\ msg = "ErrNoTesseract"
    /\ venv = "missing"
    /\ pc = "done"

\* p holds now what it held when main started.
AsAtStart(p) ==
    /\ p \in DOMAIN fs <=> p \in DOMAIN fs0
    /\ p \in DOMAIN fs => fs[p] = fs0[p]

\* C6: after a failure on page k no later page has been written, pages
\* 1..k-1 hold the text this run wrote, and the combiner has not run; after
\* a failed rasterization no page file has been written at all.
C6_FailureStopsTheRun ==
    /\ failure = "page" =>
          /\ \A j \in 1..(page_num - 1) :
                PagePath(j) \in DOMAIN fs /\ fs[PagePath(j)] = images[j]
          /\ \A j \in (page_num + 1)..(MaxPages + 1) : AsAtStart(PagePath(j))
          /\ "combine" \notin ran
          /\ ret = "none"
    /\ failure = "raster" =>
          /\ \A n \in Matches \cup Matches0 : AsAtStart(<<OutDir, n>>)
          /\ "page" \notin ran
          /\ "combine" \notin ran

C6_Witness ==
    /\ failure = "page"
    /\ page_num = 2
    /\ Len(images) = 2
    /\ args.combine
    /\ PagePath(1) \in DOMAIN fs0
    /\ fs[PagePath(1)] = images[1]
    /\ fs[PagePath(1)] # fs0[PagePath(1)]
    /\ pc = "done"

\* A step of the extraction subprocess changes no file but the page file of
\* the page it is processing.
ExtractionStepFrame ==
    pc \in {"rasterize", "mkdir", "page", "sub_failed"} =>
        \A p \in DOMAIN fs :
            \/ (pc = "page" /\ p = PagePath(page_num))
            \/ (p \in DOMAIN fs' /\ fs'[p] = fs[p])

ExtractionPhases == {"probe", "venv", "script", "rasterize", "page"}

\* C8 (as claimed): whenever --skip-extraction is given, whatever the other
\* arguments, no phase of the extraction is started and no page file is
\* written.
C8_SkipFlagSkipsExtraction ==
    args.skip_extraction =>
        /\ ran \cap ExtractionPhases = {}
        /\ \A n \in Matches \cup Matches0 : AsAtStart(<<OutDir, n>>)

\* An extract-mode run with valid arguments.
ExtractMode == ~CombineOnly /\ args.pdf_path /\ args.output_dir

\* C9 (as claimed): at every point of an extract-mode run, every file
\* outside the output directory is as it was when main started.
C9_WritesOnlyInOutputDir ==
    ExtractMode =>
        \A p \in DOMAIN fs \cup DOMAIN fs0 : p[1] # OutDir => AsAtStart(p)

\* C9 (amended): outside the output directory an extract-mode run creates,
\* overwrites or deletes no file other than temp_extract_script.py in the
\* working directory, which main writes before the pipeline starts and has
\* removed when it returns; the page pipeline and the combiner write only
\* inside the output directory.
C9_OnlyTempScriptOutside ==
    ExtractMode =>
        /\ \A p \in DOMAIN fs \cup DOMAIN fs0 :
              (p[1] # OutDir /\ p # TempPath) => AsAtStart(p)
        /\ ~AsAtStart(TempPath) => "script" \in ran
        /\ (ran \cap {"rasterize", "page", "combine"} # {} /\ pc # "done") =>
              TempPath \in DOMAIN fs /\ fs[TempPath] = ScriptText
        /\ ("script" \in ran /\ pc = "done") => TempPath \notin DOMAIN fs

C9_Witness ==
    /\ ExtractMode
    /\ ~outIsCwd
    /\ TempPath \in DOMAIN fs0
    /\ "page" \in ran
    /\ "combine" \in ran
    /\ ret = "true"
    /\ pc = "done"

\* C10 (as claimed): combine_text_files always ends by returning True or
\* False after a message, never by an exception, in both of its callers.
C10_CombineNeverRaises ==
    /\ ret # "raised"
    /\ ret \in {"true", "false"} => msg # "none"
====
